---------------------------- MODULE Spec2Model ----------------------------
(***************************************************************************)
(* A model of the chapter-update notifier:                                 *)
(*   scripts/check_updates.py   ChapterChecker (fetch, parse, diff,        *)
(*                              notify, cache)                             *)
(*   scripts/display_status.py  send_status_to_discord (embed chunking)    *)
(*                                                                         *)
(* Conventions.                                                            *)
(*  - A chapter number is a float in the code.  Here a number k stands for *)
(*    the float k/2, so odd values are the fractional side chapters        *)
(*    (12.5) and 0 is 0.0, the only number that is falsy in Python.        *)
(*  - A chapter link is abstracted to what the extractor reads from it:    *)
(*    titleNum, the number captured by the first title pattern that        *)
(*    matches (NoMatch when none does), hrefNum, the number captured by    *)
(*    /c<num> in the href (NoMatch when absent), and text, the link text.  *)
(*  - Wall-clock time is the index of the run.                             *)
(*  - A string of display_status.py is abstracted to its origin and its    *)
(*    length.                                                              *)
(***************************************************************************)
EXTENDS Integers, Sequences, FiniteSets, TLC

VARIABLES
    \* ---- parse / diff as pure functions (SpecParse, SpecDiff)
    page,               \* the chapter links of a novel page, in document order
    current_chapters,   \* parse_chapters' result
    cached_chapters,    \* the cached list handed to get_new_chapters
    new_chapters,       \* get_new_chapters' result
    dpc,                \* "page", "parsed", "diffed"
    \* ---- send_status_to_discord (SpecStatus)
    status_novels,      \* the novels handed to send_status_to_discord
    payload,            \* the embeds built from them
    message_id,         \* the stored message id, 0 when there is none
    spc,                \* "input", "sent"
    \* ---- ChapterChecker.run, over several runs (Spec, SpecLoad)
    pc,                 \* "idle", "fetch_group", "fetch_novel", "notify", "crashed"
    run,                \* number of runs started
    webhook_url,        \* whether CFU_NOVEL_WEBHOOKS is set in this run
    file,               \* cache.json on disk
    cache,              \* run's local variable cache
    novels,             \* run's local variable novels (ids, in page order)
    idx,                \* position of the for loop over novels
    all_new_chapters,   \* run's local variable all_new_chapters
    notified,           \* chapters send_discord_notification was called for
    any_failed,         \* some notification of this run failed
    loads,              \* load_cache calls of this run
    saves,              \* save_cache calls of this run
    \* ---- fetch_page (SpecFetch)
    responses,          \* what the server answers to the successive GETs
    attempt,            \* fetch_page's loop variable
    fails,              \* failed GETs of the fetch_page call in progress
    slept,              \* the sleeps of the fetch_page call in progress
    last_fetch,         \* the last fetch_page call that returned
    \* ---- history (read by the properties only)
    last_parse,         \* per novel: its most recent non-empty parse
    save_failed,        \* some save_cache so far hit an IOError
    seen,               \* per novel: numbers that appeared in a parse
    broken,             \* per novel: numbers that appeared and were later missing
    reported_run,       \* per novel, number: the last run that reported it new
    twice               \* per novel: numbers reported new in two different runs

varsPure == <<page, current_chapters, cached_chapters, new_chapters, dpc>>
varsStatus == <<status_novels, message_id, payload, spc>>
varsFetch == <<responses, attempt, fails, slept, last_fetch>>
varsHist == <<last_parse, save_failed, seen, broken, reported_run, twice>>
varsRun == <<pc, run, webhook_url, file, cache, novels, idx, all_new_chapters,
             notified, any_failed, loads, saves>>
vars == <<varsPure, varsStatus, varsRun, varsFetch, varsHist>>

-----------------------------------------------------------------------------
(* Bounds of the model *)

MaxNumber == 2
MaxShortLinks == 3
MaxLongLinks == 6
MaxCurrent == 2
MaxCached == 2

(* Program constants *)

FIRST_RUN_LIMIT == 5
MAX_RETRIES == 3
RETRY_DELAY == 5

NoMatch == -1
None == -1

Min(a, b) == IF a < b THEN a ELSE b

Numbers == 0..MaxNumber
Texts == {"a", "b"}

RECURSIVE SeqsOfLen(_, _)
SeqsOfLen(S, n) ==
    IF n = 0 THEN {<<>>}
    ELSE {Append(s, x) : s \in SeqsOfLen(S, n - 1), x \in S}

SeqsUpTo(S, n) == UNION {SeqsOfLen(S, k) : k \in 0..n}

-----------------------------------------------------------------------------
(* extract_chapter_number: the first title pattern that matches wins, then
   the number in the href, then None *)

extract_chapter_number(link) ==
    IF link.titleNum # NoMatch THEN link.titleNum
    ELSE IF link.hrefNum # NoMatch THEN link.hrefNum
    ELSE None

(* `if chapter_num:` -- None and 0.0 are both falsy *)
Truthy(chapter_num) == chapter_num # None /\ chapter_num # 0

ChapterOf(link, now) ==
    [number |-> extract_chapter_number(link), title |-> link.text,
     url |-> link.hrefNum, timestamp |-> now, novel_title |-> 0]

(* chapters.sort(key=number, reverse=True): a stable sort, records of equal
   number keep their order *)
InsertDesc(s, x) ==
    LET k == Cardinality({i \in 1..Len(s) : s[i].number >= x.number})
    IN  SubSeq(s, 1, k) \o <<x>> \o SubSeq(s, k + 1, Len(s))

RECURSIVE SortDescRec(_)
SortDescRec(s) ==
    IF s = <<>> THEN <<>>
    ELSE InsertDesc(SortDescRec(SubSeq(s, 1, Len(s) - 1)), s[Len(s)])

(* variant: the parse result is left in page order *)
NoSort(s) == s

SortDesc(s) == SortDescRec(s)

RECURSIVE KeptLinks(_, _)
KeptLinks(links, now) ==
    IF links = <<>> THEN <<>>
    ELSE LET rest == KeptLinks(Tail(links), now)
         IN  IF Truthy(extract_chapter_number(Head(links)))
             THEN <<ChapterOf(Head(links), now)>> \o rest
             ELSE rest

parse_chapters(links, now) == SortDesc(KeptLinks(links, now))

(* get_new_chapters *)
NumbersOf(chapters) == {chapters[i].number : i \in 1..Len(chapters)}

(* variant: a record is new unless number, title and url are all cached *)
get_new_chapters_by_record(current, cached) ==
    IF cached = <<>> THEN SubSeq(current, 1, Min(FIRST_RUN_LIMIT, Len(current)))
    ELSE LET old == {[number |-> cached[i].number, title |-> cached[i].title,
                      url |-> cached[i].url] : i \in 1..Len(cached)}
         IN  SelectSeq(current,
                 LAMBDA c : [number |-> c.number, title |-> c.title, url |-> c.url]
                                \notin old)

get_new_chapters(current, cached) ==
    IF cached = <<>> THEN SubSeq(current, 1, Min(FIRST_RUN_LIMIT, Len(current)))
    ELSE LET cached_nums == NumbersOf(cached)
         IN  SelectSeq(current, LAMBDA c : c.number \notin cached_nums)

-----------------------------------------------------------------------------
(* Inputs of the pure specifications *)

(* links with a number in the title, in the href, in both or in neither, and
   links told apart by the number in their title only *)
RichLinks ==
    [titleNum : Numbers \cup {NoMatch}, hrefNum : Numbers \cup {NoMatch}, text : {"a"}]
PlainLinks ==
    [titleNum : Numbers \cup {NoMatch}, hrefNum : {NoMatch}, text : {"a"}]

(* current records come in an edited title or url, cached ones do not *)
CurrentRecords ==
    {[number |-> n, title |-> tu[1], url |-> tu[2], timestamp |-> 2, novel_title |-> 0] :
        n \in Numbers, tu \in {<<"a", 0>>, <<"b", 0>>, <<"a", 1>>}}
CachedRecords ==
    {[number |-> n, title |-> "a", url |-> 0, timestamp |-> 1, novel_title |-> 0] :
        n \in Numbers}

-----------------------------------------------------------------------------
(* The cache file and load_cache / save_cache *)

MaxNovels == 2
MaxRuns == 2
MaxRunLinks == 2

NovelIds == 1..MaxNovels

EmptyMap == <<>>
Put(m, k, v) == (k :> v) @@ m

(* cache.json: absent; "json", a snapshot this program wrote; "json_other",
   valid JSON without a novels mapping, such as {}; "badjson", text json.load
   rejects, such as a truncated write; "ioerror", a file that cannot be
   opened or read; "badutf8", bytes that are not UTF-8 *)
FileOf(kind) == [kind |-> kind, novels |-> EmptyMap, last_check |-> None]
AbsentFile == FileOf("absent")

DefaultCache == [shape |-> "snapshot", novels |-> EmptyMap, last_check |-> None]

(* open(..., encoding='utf-8') with json.load raises UnicodeDecodeError on
   bad bytes, which is neither a JSONDecodeError nor an IOError *)
LoadRaises(f) == f.kind = "badutf8"

load_cache(f) ==
    IF f.kind = "json"
    THEN [shape |-> "snapshot", novels |-> f.novels, last_check |-> f.last_check]
    ELSE IF f.kind = "json_other"
    THEN [shape |-> "other", novels |-> EmptyMap, last_check |-> None]
    ELSE DefaultCache

(* save_cache: the dump succeeds, or open() fails and the file keeps its
   content, or the write fails part-way and leaves truncated JSON; both
   failures are an IOError, which is logged *)
SaveOutcomes == {"ok", "open_failed", "truncated"}

save_cache(data, f, outcome) ==
    IF outcome = "ok"
    THEN [kind |-> IF data.shape = "snapshot" THEN "json" ELSE "json_other",
          novels |-> data.novels, last_check |-> data.last_check]
    ELSE IF outcome = "open_failed" THEN f
    ELSE FileOf("badjson")

-----------------------------------------------------------------------------
(* fetch_page *)

MaxResponses == 4

(* the answers that make raise_for_status or the GET itself raise a
   requests.RequestException, and the one that does not *)
Responses == {"200", "500", "timeout", "refused"}

(* variant: sleeps after the last failed attempt as well *)
RetriesLeftAlways(k) == TRUE

(* `if attempt < MAX_RETRIES - 1:` sleep and go round again *)
RetriesLeft(k) == k < MAX_RETRIES - 1

Returned(result, failed, sleeps) ==
    [gets |-> attempt + 1, fails |-> failed, slept |-> sleeps, result |-> result]

NoFetch == [gets |-> 0, fails |-> 0, slept |-> <<>>, result |-> "none"]

FetchIdle ==
    /\ responses = <<>> /\ attempt = 0 /\ fails = 0 /\ slept = <<>>
    /\ last_fetch = NoFetch

(* one turn of `for attempt in range(MAX_RETRIES)` whose GET succeeds *)
GetOk ==
    /\ last_fetch.result = "none"
    /\ attempt < MAX_RETRIES
    /\ responses[attempt + 1] = "200"
    /\ last_fetch' = Returned("body", fails, slept)
    /\ UNCHANGED <<responses, attempt, fails, slept>>
    /\ UNCHANGED <<varsPure, varsStatus, varsRun, varsHist>>

(* one turn whose GET raises: sleep and go round again, or give up; the
   return after the loop is reached only when the range runs out *)
GetFail ==
    /\ last_fetch.result = "none"
    /\ attempt < MAX_RETRIES
    /\ responses[attempt + 1] # "200"
    /\ fails' = fails + 1
    /\ IF RetriesLeft(attempt)
       THEN /\ slept' = Append(slept, RETRY_DELAY * 2^attempt)
            /\ IF attempt + 1 < MAX_RETRIES
               THEN attempt' = attempt + 1 /\ UNCHANGED last_fetch
               ELSE /\ last_fetch' = Returned("None", fails + 1, slept')
                    /\ UNCHANGED attempt
       ELSE /\ last_fetch' = Returned("None", fails + 1, slept)
            /\ UNCHANGED <<slept, attempt>>
    /\ UNCHANGED responses
    /\ UNCHANGED <<varsPure, varsStatus, varsRun, varsHist>>

(* what a successful GET answers: an empty body, or a page *)
RunPages == SeqsUpTo(PlainLinks, MaxRunLinks)
NovelBodies == {[empty |-> TRUE, links |-> <<>>]} \cup
               {[empty |-> FALSE, links |-> p] : p \in RunPages}
GroupBodies == {[empty |-> TRUE, ids |-> <<>>]} \cup
               {[empty |-> FALSE, ids |-> p] : p \in SeqsUpTo(NovelIds, MaxNovels)}

(* parse_novels: the novels of the group page, in page order; an id stands
   for the novel's id, title and url *)
parse_novels(body) == body.ids

-----------------------------------------------------------------------------
(* ChapterChecker.run *)

(* the loop over novels moves on, or ends and the notifications start *)
NextNovel ==
    /\ idx' = idx + 1
    /\ pc' = IF idx < Len(novels) THEN "fetch_novel" ELSE "notify"

(* variant: `return` where the code has `continue` *)
SkipNovelReturns ==
    /\ pc' = "idle"
    /\ UNCHANGED idx

(* `continue`: the fetch failed or no chapter was parsed *)
SkipNovel == NextNovel

Crash ==
    /\ pc' = "crashed"
    /\ UNCHANGED idx

(* `for chapter in new_chapters: chapter['novel_title'] = ...` writes into the
   records of current_chapters too, the lists share them.  A record is taken
   for shared when it equals one of new_chapters, which is exact unless two
   equal records straddle the first-run limit. *)
Annotate(chapters, new, novel_id) ==
    [i \in 1..Len(chapters) |->
        IF \E j \in 1..Len(new) : new[j] = chapters[i]
        THEN [chapters[i] EXCEPT !.novel_title = novel_id]
        ELSE chapters[i]]

Strip(chapters) == [i \in 1..Len(chapters) |-> [chapters[i] EXCEPT !.novel_title = 0]]

CachedChapters(c, novel_id) ==
    IF novel_id \in DOMAIN c.novels THEN c.novels[novel_id].chapters ELSE <<>>

(* variants: the new chapters are put before the cached ones; only the new
   chapters are stored *)
UpdateMerging(c, novel_id, current, new, now) ==
    [c EXCEPT !.novels =
        Put(c.novels, novel_id,
            [chapters |-> new \o CachedChapters(c, novel_id), last_check |-> now])]

UpdateNewOnly(c, novel_id, current, new, now) ==
    [c EXCEPT !.novels =
        Put(c.novels, novel_id, [chapters |-> new, last_check |-> now])]

(* cache['novels'][novel_id]['chapters'] = current_chapters *)
UpdateCache(c, novel_id, current, new, now) ==
    [c EXCEPT !.novels =
        Put(c.novels, novel_id, [chapters |-> current, last_check |-> now])]

StartRun ==
    /\ pc = "idle"
    /\ run < MaxRuns
    /\ run' = run + 1
    /\ \E wh \in BOOLEAN : webhook_url' = wh
    /\ loads' = 1
    /\ saves' = 0
    /\ novels' = <<>>
    /\ idx' = 0
    /\ all_new_chapters' = <<>>
    /\ notified' = <<>>
    /\ any_failed' = FALSE
    /\ IF LoadRaises(file)
       THEN pc' = "crashed" /\ cache' = DefaultCache
       ELSE pc' = "fetch_group" /\ cache' = load_cache(file)
    /\ UNCHANGED <<file, varsFetch, varsHist, varsPure, varsStatus>>

(* fetch_page returned None, every attempt failed (GetFail has the attempts):
   no group page ends the run (`if not novels: return`), no novel page skips
   the novel *)
FetchFail ==
    /\ pc \in {"fetch_group", "fetch_novel"}
    /\ IF pc = "fetch_group"
       THEN pc' = "idle" /\ UNCHANGED idx
       ELSE SkipNovel
    /\ UNCHANGED <<run, webhook_url, file, cache, novels, all_new_chapters, notified,
                   any_failed, loads, saves, varsFetch, varsHist, varsPure, varsStatus>>

(* the group page arrived: get_novels, then `if not novels: return` *)
FetchGroupOk ==
    /\ pc = "fetch_group"
    /\ \E body \in GroupBodies :
        LET ns == IF body.empty THEN <<>> ELSE parse_novels(body)
        IN  /\ novels' = ns
            /\ IF ns = <<>>
               THEN pc' = "idle" /\ idx' = 0
               ELSE pc' = "fetch_novel" /\ idx' = 1
    /\ UNCHANGED <<run, webhook_url, file, cache, all_new_chapters, notified,
                   any_failed, loads, saves, varsFetch, varsHist, varsPure, varsStatus>>

(* a novel page arrived: parse, diff against the cache, update the cache *)
FetchNovelOk ==
    /\ pc = "fetch_novel"
    /\ \E body \in NovelBodies :
        LET novel_id == novels[idx]
            current == IF body.empty THEN <<>> ELSE parse_chapters(body.links, run)
            cached == CachedChapters(cache, novel_id)
            new == get_new_chapters(current, cached)
            marked == Annotate(current, new, novel_id)
            nums == NumbersOf(current)
            newnums == NumbersOf(new)
        IN  IF current = <<>>
            THEN SkipNovel /\ UNCHANGED <<cache, all_new_chapters, varsHist>>
            ELSE IF cache.shape # "snapshot"
            THEN Crash /\ UNCHANGED <<cache, all_new_chapters, varsHist>>
            ELSE /\ NextNovel
                 /\ all_new_chapters' = all_new_chapters \o Annotate(new, new, novel_id)
                 /\ cache' = UpdateCache(cache, novel_id, marked, new, run)
                 /\ last_parse' = [last_parse EXCEPT ![novel_id] = current]
                 /\ seen' = [seen EXCEPT ![novel_id] = @ \cup nums]
                 /\ broken' = [broken EXCEPT ![novel_id] = @ \cup (seen[novel_id] \ nums)]
                 /\ reported_run' = [reported_run EXCEPT ![novel_id] =
                        [n \in Numbers |-> IF n \in newnums THEN run ELSE @[n]]]
                 /\ twice' = [twice EXCEPT ![novel_id] =
                        @ \cup {n \in newnums : reported_run[novel_id][n] \notin {0, run}}]
                 /\ UNCHANGED save_failed
    /\ UNCHANGED <<run, webhook_url, file, novels, notified, any_failed, loads, saves,
                   varsFetch, varsPure, varsStatus>>

(* send_discord_notification: a missing template field, a non-2xx answer and
   a network error all end in `except Exception`, which logs *)
NotifyOutcomes == {"sent", "format_error", "http_error", "network_error"}

(* variant: only request errors are caught *)
CaughtUnlessFormat(outcome) == outcome # "format_error"

Caught(outcome) == TRUE

SendNotification ==
    /\ pc = "notify"
    /\ webhook_url
    /\ Len(notified) < Len(all_new_chapters)
    /\ \E outcome \in NotifyOutcomes :
        /\ any_failed' = (any_failed \/ outcome # "sent")
        /\ pc' = IF Caught(outcome) THEN "notify" ELSE "crashed"
    /\ notified' = Append(notified, all_new_chapters[Len(notified) + 1])
    \* time.sleep(1) follows
    /\ UNCHANGED <<run, webhook_url, file, cache, novels, idx, all_new_chapters, loads,
                   saves, varsFetch, varsHist, varsPure, varsStatus>>

(* the last step of run: cache['last_check'] = now; save_cache(cache) *)
SaveCache ==
    /\ pc = "notify"
    /\ webhook_url => Len(notified) = Len(all_new_chapters)
    /\ \E outcome \in SaveOutcomes :
        /\ file' = save_cache([cache EXCEPT !.last_check = run], file, outcome)
        /\ save_failed' = (save_failed \/ outcome # "ok")
    /\ cache' = [cache EXCEPT !.last_check = run]
    /\ saves' = saves + 1
    /\ pc' = "idle"
    /\ UNCHANGED <<run, webhook_url, novels, idx, all_new_chapters, notified, any_failed,
                   loads, varsFetch, last_parse, seen, broken, reported_run, twice,
                   varsPure, varsStatus>>

Next == StartRun \/ FetchFail \/ FetchGroupOk \/ FetchNovelOk \/ SendNotification \/ SaveCache

PureIdle ==
    /\ page = <<>> /\ current_chapters = <<>> /\ cached_chapters = <<>>
    /\ new_chapters = <<>> /\ dpc = "off"
StatusIdle == status_novels = <<>> /\ message_id = 0 /\ payload = <<>> /\ spc = "off"

NoParse == <<>>

RunInit ==
    /\ pc = "idle" /\ run = 0 /\ webhook_url = FALSE
    /\ cache = DefaultCache /\ novels = <<>> /\ idx = 0
    /\ all_new_chapters = <<>> /\ notified = <<>> /\ any_failed = FALSE
    /\ loads = 0 /\ saves = 0
    /\ last_parse = [n \in NovelIds |-> NoParse]
    /\ save_failed = FALSE
    /\ seen = [n \in NovelIds |-> {}]
    /\ broken = [n \in NovelIds |-> {}]
    /\ reported_run = [n \in NovelIds |-> [k \in Numbers |-> 0]]
    /\ twice = [n \in NovelIds |-> {}]

(* the runs of one installation: no cache file before the first run *)
Init == RunInit /\ file = AbsentFile /\ FetchIdle /\ PureIdle /\ StatusIdle

Spec == Init /\ [][Next]_vars


-----------------------------------------------------------------------------
(* parse_chapters and get_new_chapters on their own *)

ParseChaptersStep ==
    /\ dpc = "page"
    /\ current_chapters' = parse_chapters(page, 1)
    /\ dpc' = "parsed"
    /\ UNCHANGED <<page, cached_chapters, new_chapters, varsStatus, varsRun, varsFetch,
                   varsHist>>

GetNewChaptersStep ==
    /\ dpc = "parsed"
    /\ new_chapters' = get_new_chapters(current_chapters, cached_chapters)
    /\ dpc' = "diffed"
    /\ UNCHANGED <<page, current_chapters, cached_chapters, varsStatus, varsRun,
                   varsFetch, varsHist>>

(* a page is parsed and diffed against no cache, a novel's first run: short
   pages over every kind of link, long pages over the plain ones *)
InitParse ==
    /\ \/ \E n \in 0..MaxShortLinks : page \in [1..n -> RichLinks]
       \/ \E n \in 0..MaxLongLinks : page \in [1..n -> PlainLinks]
    /\ current_chapters = <<>> /\ cached_chapters = <<>> /\ new_chapters = <<>>
    /\ dpc = "page"
    /\ RunInit /\ file = AbsentFile /\ FetchIdle /\ StatusIdle

NextParse == ParseChaptersStep \/ GetNewChaptersStep

SpecParse == InitParse /\ [][NextParse]_vars

(* any current list is diffed against any cached list *)
InitDiff ==
    /\ page = <<>>
    /\ \E n \in 0..MaxCurrent : current_chapters \in [1..n -> CurrentRecords]
    /\ \E n \in 0..MaxCached : cached_chapters \in [1..n -> CachedRecords]
    /\ new_chapters = <<>>
    /\ dpc = "parsed"
    /\ RunInit /\ file = AbsentFile /\ FetchIdle /\ StatusIdle

NextDiff == GetNewChaptersStep

SpecDiff == InitDiff /\ [][NextDiff]_vars

-----------------------------------------------------------------------------
(* fetch_page on its own, against every script of server answers *)

InitFetch ==
    /\ responses \in [1..MaxResponses -> Responses]
    /\ attempt = 0 /\ fails = 0 /\ slept = <<>> /\ last_fetch = NoFetch
    /\ RunInit /\ file = AbsentFile /\ PureIdle /\ StatusIdle

NextFetch == GetOk \/ GetFail

SpecFetch == InitFetch /\ [][NextFetch]_vars

-----------------------------------------------------------------------------
(* the runs of an installation whose cache file holds anything at all *)

InitialFiles ==
    {FileOf(k) : k \in {"absent", "badjson", "ioerror", "badutf8", "json_other"}}
    \cup {[kind |-> "json", novels |-> EmptyMap, last_check |-> 0]}

InitLoad == RunInit /\ file \in InitialFiles /\ FetchIdle /\ PureIdle /\ StatusIdle

SpecLoad == InitLoad /\ [][Next]_vars


-----------------------------------------------------------------------------
(* display_status.py: send_status_to_discord *)

MaxStatusNovels == 51
MaxTitleLen == 300
MaxTextLen == 1100
ShortLen == 10

CHUNK_SIZE == 25
TITLE_CUT == 250
VALUE_CUT == 1000
VALUE_KEEP == 997
ELLIPSIS == 3
(* len("**Trạng thái:** ") + len("\n**Cập nhật:** ") *)
VALUE_LABELS == 31

(* Discord's limits, as the comments of send_status_to_discord give them *)
FIELDS_PER_EMBED == 25
FIELD_NAME_LIMIT == 256
FIELD_VALUE_LIMIT == 1024

(* variant: the title goes in uncut *)
FieldNameUncut(novel) == [of |-> novel.id, len |-> novel.title]

(* novel['title'][:250] + "..." if len(novel['title']) > 250 else novel['title'] *)
FieldName(novel) ==
    [of |-> novel.id,
     len |-> IF novel.title > TITLE_CUT THEN TITLE_CUT + ELLIPSIS ELSE novel.title]

(* the f-string, then value[:997] + "..." if it is longer than 1000 *)
FieldValue(novel) ==
    LET n == VALUE_LABELS + novel.status + novel.last_update
    IN  [of |-> novel.id, len |-> IF n > VALUE_CUT THEN VALUE_KEEP + ELLIPSIS ELSE n]

FieldOf(novel) == [name |-> FieldName(novel), value |-> FieldValue(novel), inline |-> FALSE]

(* [novels[i:i + chunk_size] for i in range(0, len(novels), chunk_size)] *)
ChunkStarts(n) == {i \in 0..n - 1 : i % CHUNK_SIZE = 0}

Chunks(ns) ==
    [c \in 1..Cardinality(ChunkStarts(Len(ns))) |->
        SubSeq(ns, (c - 1) * CHUNK_SIZE + 1, Min(c * CHUNK_SIZE, Len(ns)))]

Embeds(ns) ==
    LET chunks == Chunks(ns)
    IN  [c \in 1..Len(chunks) |->
            [fields |-> [i \in 1..Len(chunks[c]) |-> FieldOf(chunks[c][i])],
             part |-> IF Len(chunks) > 1 THEN c ELSE 0,
             footer |-> <<Len(ns), c, Len(chunks)>>]]

(* the request: PATCH <webhook>/messages/<id> with a message id, else POST *)
SendStatus ==
    /\ spc = "input"
    /\ payload' = [embeds |-> Embeds(status_novels),
                   method |-> IF message_id # 0 THEN "PATCH" ELSE "POST"]
    /\ spc' = "sent"
    /\ UNCHANGED <<status_novels, message_id, varsPure, varsRun, varsFetch, varsHist>>

(* n novels with short texts, but for one of them *)
TitleLens == {0, TITLE_CUT, TITLE_CUT + 1, MaxTitleLen}
TextLens == {0, VALUE_CUT - VALUE_LABELS, VALUE_CUT - VALUE_LABELS + 1, MaxTextLen}

StatusInput(n, p, tl, sl, ul) ==
    [i \in 1..n |->
        IF i = p THEN [id |-> i, title |-> tl, status |-> sl, last_update |-> ul]
        ELSE [id |-> i, title |-> ShortLen, status |-> ShortLen, last_update |-> ShortLen]]

(* the odd one out is the first or the last novel, or sits at the end of the
   first chunk or at the start of the second *)
Positions(n) == {1, n, CHUNK_SIZE, CHUNK_SIZE + 1} \cap 1..n

InitStatus ==
    /\ \E n \in 0..MaxStatusNovels :
        \E p \in Positions(n) \cup {0}, tl \in TitleLens, sl \in TextLens,
           ul \in {0, MaxTextLen} :
            status_novels = StatusInput(n, p, tl, sl, ul)
    /\ message_id \in {0, 1}
    /\ payload = <<>>
    /\ spc = "input"
    /\ RunInit /\ file = AbsentFile /\ FetchIdle /\ PureIdle

NextStatus == SendStatus

SpecStatus == InitStatus /\ [][NextStatus]_vars


-----------------------------------------------------------------------------
(* Properties *)

(* the positions of a list, counted within a set of positions *)
Nth(S, j) == CHOOSE i \in S : Cardinality({k \in S : k <= i}) = j

(* C1: against a non-empty cached list, get_new_chapters returns exactly the
   current records whose number is not a cached number, in the order of the
   current list; a record whose number is cached is not returned, whatever
   its title and url. *)
C1_DiffByNumber ==
    (dpc = "diffed" /\ cached_chapters # <<>>) =>
        LET cached_nums == {cached_chapters[i].number : i \in 1..Len(cached_chapters)}
            fresh == {i \in 1..Len(current_chapters) :
                        current_chapters[i].number \notin cached_nums}
        IN  /\ Len(new_chapters) = Cardinality(fresh)
            /\ \A j \in 1..Len(new_chapters) :
                new_chapters[j] = current_chapters[Nth(fresh, j)]

C1_Witness ==
    /\ dpc = "diffed" /\ cached_chapters # <<>>
    /\ Len(new_chapters) = 1 /\ Len(current_chapters) = 2
    /\ \E i \in 1..Len(current_chapters), j \in 1..Len(cached_chapters) :
        /\ current_chapters[i].number = cached_chapters[j].number
        /\ current_chapters[i].title # cached_chapters[j].title

(* C2: on a first run (no cached list) the diff of the n chapters parsed from
   a page is the first min(n, 5) of them, in descending order of number, and
   no chapter left out has a larger number than one returned. *)
C2_FirstRunNewest ==
    (dpc = "diffed" /\ cached_chapters = <<>>) =>
        LET n == Len(current_chapters)
            m == Len(new_chapters)
        IN  /\ m = Min(n, FIRST_RUN_LIMIT)
            /\ m <= FIRST_RUN_LIMIT
            /\ \A j \in 1..m : new_chapters[j] = current_chapters[j]
            /\ \A j \in 1..m - 1 : new_chapters[j].number >= new_chapters[j + 1].number
            /\ \A j \in 1..m, i \in m + 1..n :
                current_chapters[i].number <= new_chapters[j].number

C2_Witness ==
    /\ dpc = "diffed" /\ cached_chapters = <<>>
    /\ Len(current_chapters) > FIRST_RUN_LIMIT
    /\ Len(new_chapters) = FIRST_RUN_LIMIT
    /\ page[1].titleNum < page[Len(page)].titleNum
    /\ new_chapters[1].number > new_chapters[FIRST_RUN_LIMIT].number

(* C9: every link the extractor finds a number for (0 and fractional numbers
   included) gives exactly one chapter record of that number, so the parse
   holds as many records of each number as the page holds links of it. *)
C9_KeyedLinksKept ==
    (dpc \in {"parsed", "diffed"}) =>
        \A v \in Numbers :
            Cardinality({i \in 1..Len(page) : extract_chapter_number(page[i]) = v})
                = Cardinality({j \in 1..Len(current_chapters) :
                                    current_chapters[j].number = v})

(* C4: fetch_page makes at most 3 GETs; it returns the body of the first GET
   that succeeds; before attempt k+1 it has slept 5 * 2^k seconds after failed
   attempt k, for k < 2; it returns None exactly when 3 GETs failed, and then
   it slept 5 and 10 seconds and not after the third failure. *)
Backoff(n) == [k \in 1..n |-> RETRY_DELAY * 2^(k - 1)]

AllFailed(n) == \A k \in 1..n : responses[k] # "200"

C4_BoundedRetry ==
    /\ attempt < MAX_RETRIES
    /\ last_fetch.result = "none" =>
        /\ fails = attempt /\ AllFailed(attempt) /\ slept = Backoff(attempt)
    /\ last_fetch.result = "body" =>
        /\ last_fetch.gets <= MAX_RETRIES
        /\ responses[last_fetch.gets] = "200"
        /\ AllFailed(last_fetch.gets - 1)
        /\ last_fetch.fails = last_fetch.gets - 1
        /\ last_fetch.slept = Backoff(last_fetch.gets - 1)
    /\ last_fetch.result = "None" =>
        /\ last_fetch.gets = MAX_RETRIES
        /\ last_fetch.fails = MAX_RETRIES
        /\ last_fetch.slept = Backoff(MAX_RETRIES - 1)
    /\ (last_fetch.result # "none" /\ AllFailed(MAX_RETRIES)) => last_fetch.result = "None"
    /\ last_fetch.result = "None" => AllFailed(MAX_RETRIES)

C4_Witness ==
    /\ last_fetch.result = "None"
    /\ last_fetch.slept = <<5, 10>>
    /\ responses[MAX_RETRIES + 1] = "200"

(* C8: the payload of n novels has ceil(n/25) embeds of 1 to 25 fields each,
   no field name is longer than 256 and no field value longer than 1024, and
   the fields of the embeds, taken in order, are those of the novels in input
   order, one each. *)
FieldsBefore(embeds, c) ==
    LET counts == [k \in 1..Len(embeds) |-> Len(embeds[k].fields)]
        Sum[k \in 0..Len(embeds)] == IF k = 0 THEN 0 ELSE Sum[k - 1] + counts[k]
    IN  Sum[c - 1]

C8_EmbedLimits ==
    spc = "sent" =>
        LET e == payload.embeds
            n == Len(status_novels)
        IN  /\ FIELDS_PER_EMBED * (Len(e) - 1) < n
            /\ n <= FIELDS_PER_EMBED * Len(e)
            /\ \A c \in 1..Len(e) :
                /\ Len(e[c].fields) >= 1
                /\ Len(e[c].fields) <= FIELDS_PER_EMBED
                /\ \A i \in 1..Len(e[c].fields) :
                    /\ e[c].fields[i].name.len <= FIELD_NAME_LIMIT
                    /\ e[c].fields[i].value.len <= FIELD_VALUE_LIMIT
                    /\ FieldsBefore(e, c) + i <= n
                    /\ e[c].fields[i].name.of = status_novels[FieldsBefore(e, c) + i].id
                    /\ e[c].fields[i].value.of = status_novels[FieldsBefore(e, c) + i].id
            /\ FieldsBefore(e, Len(e) + 1) = n

C8_Witness ==
    /\ spc = "sent"
    /\ Len(status_novels) = 2 * CHUNK_SIZE + 1
    /\ Len(payload.embeds) = 3
    /\ status_novels[CHUNK_SIZE + 1].title > FIELD_NAME_LIMIT
    /\ status_novels[CHUNK_SIZE + 1].status + status_novels[CHUNK_SIZE + 1].last_update
            > FIELD_VALUE_LIMIT
    /\ payload.embeds[2].fields[1].name.len = TITLE_CUT + ELLIPSIS
    /\ payload.embeds[2].fields[1].value.len = VALUE_CUT


-----------------------------------------------------------------------------
(* Properties of run *)

InRun == pc \in {"fetch_group", "fetch_novel", "notify"}
RunEnded == pc = "idle" /\ run > 0

(* the mapping a run would load from the file *)
FileNovels == load_cache(file).novels

(* novel n's entry in a mapping is its most recent non-empty parse, the
   novel_title / novel_url annotations of the reported records aside *)
HoldsLastParse(mapping, n) ==
    IF last_parse[n] = NoParse THEN n \notin DOMAIN mapping
    ELSE /\ n \in DOMAIN mapping
         /\ Strip(mapping[n].chapters) = last_parse[n]

C5_EveryChapterNotified ==
    /\ pc # "crashed"
    /\ \A i \in 1..Len(notified) :
        i <= Len(all_new_chapters) /\ notified[i] = all_new_chapters[i]
    /\ (webhook_url /\ saves = 1) => notified = all_new_chapters
    /\ (RunEnded /\ all_new_chapters # <<>>) => saves = 1
    /\ ~webhook_url => notified = <<>>

C5_Witness ==
    /\ RunEnded /\ webhook_url /\ any_failed /\ saves = 1
    /\ Len(all_new_chapters) >= 2
    /\ notified = all_new_chapters

C7_MalformedGivesDefault ==
    /\ pc # "crashed"
    /\ (pc = "fetch_group" /\ file.kind # "json") => cache = DefaultCache

(* C10: while every cache write succeeds, a number is reported as new for a
   novel in at most one run, unless it was missing from a parse of the novel
   after it first appeared. *)
C10_ReportedOnce ==
    ~save_failed => \A n \in NovelIds : twice[n] \subseteq broken[n]

C10_Witness ==
    /\ pc = "idle" /\ run = 2 /\ saves = 1 /\ ~save_failed
    /\ \E n \in NovelIds : \E k \in Numbers :
        /\ reported_run[n][k] = 1
        /\ k \notin broken[n]
        /\ last_parse[n] # NoParse
        /\ last_parse[n][1].timestamp = 2
        /\ k \in NumbersOf(last_parse[n])

=============================================================================
